---- MODULE Spec2Model ----
(***************************************************************************)
(* rtsp-timelapse (src/main.py): a daemon that captures one frame of an    *)
(* RTSP stream every N minutes, assembles the frames into 24 fps and       *)
(* 60 fps time-lapses once a day and once a week, sends them through       *)
(* apprise and cleans the screenshot directory after the weekly run.       *)
(*                                                                         *)
(* Time is counted in seconds (one poll of the runtime loop sleeps one     *)
(* second).  The calendar is scaled down: a minute has SecPerMin seconds,  *)
(* an hour MinPerHour minutes and a day HoursPerDay hours; second 0 is a   *)
(* Monday 00:00:00.                                                        *)
(***************************************************************************)
EXTENDS Integers, Sequences, FiniteSets, TLC

VARIABLES
    settings,     \* the validated Settings object (never changes)
    now,          \* the wall clock, in seconds
    t0,           \* the wall clock when the triggers were registered
    horizon,      \* how long after t0 the clock is followed
    next_run,     \* schedule: job -> next_run of the job
    handler,      \* TRUE once signal.signal(SIGTERM, handler) has run
    stop,         \* SignalHandler.stop
    pc,           \* position of run_schedule
    due,          \* the sorted runnable jobs run_pending still has to run
    run,          \* the job invocation in flight, or the last one finished
    trace,        \* calls to ffmpeg / apprise / unlink made by that invocation
    dir,          \* entries of SCREENSHOT_PATH
    timelapses,   \* files of TIMELAPSE_PATH
    sig,          \* history: where the first handled SIGTERM arrived
    afterSig,     \* history: what ran after the first handled SIGTERM
    capCalls,     \* history: take_screenshot calls made by the scheduler
    exitAt,       \* history: the wall clock when the loop returned, or -1
    lastPoll,     \* history: the wall clock of the last run_pending, or -1
    durations,    \* how long a call to ffmpeg / apprise may take (never changes)
    hist          \* history: counts and times of the job invocations

vars == <<settings, now, t0, horizon, next_run, handler, stop, pc, due, run,
          trace, dir, timelapses, sig, afterSig, capCalls, exitAt, lastPoll,
          durations, hist>>

----------------------------------------------------------------------------
(* Bounds of the model *)

SecPerMin == 2
MinPerHour == 2
HoursPerDay == 2
MaxElapsed == 6
MaxJobDur == 1
StartBack == 1
E2EExtra == 2
DayExtra == 2
BlockPeriods == 2

(* Constants of the program *)

DaysPerWeek == 7
Monday == 0
SleepSeconds == 1
DefaultInterval == 5

MinuteLen == SecPerMin
HourLen == MinPerHour * MinuteLen
DayLen == HoursPerDay * HourLen
WeekLen == DaysPerWeek * DayLen

----------------------------------------------------------------------------
(* datetime *)

None == <<>>
Some(x) == <<x>>

Time(h, m, s) == [hour |-> h, minute |-> m, second |-> s]

Midnight == Time(0, 0, 0)

\* datetime.timedelta(hours = h, minutes = m)
timedelta(h, m) == h * HourLen + m * MinuteLen

\* datetime.datetime.now().time()
TimeOf(n) ==
    LET r == n % DayLen
    IN  Time(r \div HourLen, (r % HourLen) \div MinuteLen, r % MinuteLen)

\* the %Y-%m-%d part of strftime: the day number
DateOf(n) == n \div DayLen

\* datetime.time.__le__: (hour, minute, second) compared lexicographically
TimeLE(a, b) ==
    \/ a.hour < b.hour
    \/ a.hour = b.hour /\ a.minute < b.minute
    \/ a.hour = b.hour /\ a.minute = b.minute /\ a.second <= b.second

\* str(datetime.time): "HH:MM:SS"
StrTime(t) == <<t.hour, t.minute, t.second>>

\* schedule's .at("HH:MM:SS"): the second of the day the job is due
AtSecond(str) == str[1] * HourLen + str[2] * MinuteLen + str[3]

----------------------------------------------------------------------------
(* Settings *)

\* the model validator: both skip bounds or none, and start <= end
check_skip_time_range(s) ==
    /\ ~ (\/ s.skip_time_start = None /\ s.skip_time_end # None
          \/ s.skip_time_end = None /\ s.skip_time_start # None)
    /\ ~ (/\ s.skip_time_start # None
          /\ s.skip_time_end # None
          /\ ~ TimeLE(s.skip_time_start[1], s.skip_time_end[1]))

\* truthiness of settings.apprise_servers (None and "" are falsy)
AppriseConfigured(s) == s.apprise_servers \notin {"None", ""}

----------------------------------------------------------------------------
(* File names and the directory SCREENSHOT_PATH *)

\* a captured frame: `stamp` is the time its name carries, `captured` the
\* wall clock of the capture (kept for the properties only)
Frame(stamp, captured) ==
    [kind |-> "file", jpg |-> TRUE, stamp |-> stamp, captured |-> captured]

\* entries the program did not create: a subdirectory and a regular file
\* that is no .jpg
SubDir == [kind |-> "dir", jpg |-> FALSE, stamp |-> 0, captured |-> 0]
OtherFile == [kind |-> "file", jpg |-> FALSE, stamp |-> 0, captured |-> 0]

\* a file name taken from the clock as it is, the offset forgotten
image_filename_unshifted(n, s) == n

\* image_filename(): now, minus the hours and minutes of the generation time
image_filename(n, s) ==
    LET g  == s.timelapse_generation_time
        dt == IF g # Midnight THEN n - timedelta(g.hour, g.minute) ELSE n
    IN  dt

\* timelapse_filename(framerate, week)
timelapse_filename(n, framerate, week) ==
    [stamp |-> n, fps |-> framerate, week |-> week]

\* filename_glob of generate_timelapse: "*.jpg", or "<date of now - 1 day>*.jpg"
filename_glob(week, n) ==
    IF week THEN [any |-> TRUE, date |-> 0]
            ELSE [any |-> FALSE, date |-> DateOf(n - DayLen)]

\* the files ffmpeg's glob input reads
Glob(entries, pattern) ==
    {e \in entries : e.jpg /\ (pattern.any \/ DateOf(e.stamp) = pattern.date)}

----------------------------------------------------------------------------
(* The jobs.  A job function yields the calls it made, the directory and   *)
(* the time-lapse files it leaves, and whether an exception left it.       *)

Call(op, fps, ok, attach) == [op |-> op, fps |-> fps, ok |-> ok, attach |-> attach]

\* the skip test with the bounds excluded
in_skip_window_exclusive(t, s) ==
    /\ s.skip_time_start # None
    /\ s.skip_time_end # None
    /\ TimeLE(s.skip_time_start[1], t) /\ s.skip_time_start[1] # t
    /\ TimeLE(t, s.skip_time_end[1]) /\ s.skip_time_end[1] # t

\* the skip test of take_screenshot
in_skip_window(t, s) ==
    /\ s.skip_time_start # None
    /\ s.skip_time_end # None
    /\ TimeLE(s.skip_time_start[1], t)
    /\ TimeLE(t, s.skip_time_end[1])

\* take_screenshot without its "except ffmpeg.Error"
take_screenshot_uncaught(n, s, entries, ok) ==
    IF in_skip_window(TimeOf(n), s)
    THEN [calls |-> <<>>, dir |-> entries, produced |-> {}, raised |-> FALSE]
    ELSE [calls |-> <<Call("capture", 0, ok, None)>>,
          dir |-> IF ok THEN entries \cup {Frame(image_filename(n, s), n)} ELSE entries,
          produced |-> {}, raised |-> ~ ok]

\* take_screenshot() at wall clock n; ok: ffmpeg wrote the frame
take_screenshot(n, s, entries, ok) ==
    IF in_skip_window(TimeOf(n), s)
    THEN [calls |-> <<>>, dir |-> entries, produced |-> {}, raised |-> FALSE]
    ELSE IF ok
    THEN [calls |-> <<Call("capture", 0, TRUE, None)>>,
          dir |-> entries \cup {Frame(image_filename(n, s), n)},
          produced |-> {}, raised |-> FALSE]
    ELSE \* except ffmpeg.Error: logged
         [calls |-> <<Call("capture", 0, FALSE, None)>>,
          dir |-> entries, produced |-> {}, raised |-> FALSE]

\* ffmpeg over a glob input: it fails when the glob matches no file
ffmpeg_run(inputs, ok) == ok /\ inputs # {}

\* generate_timelapse going on to the 60 fps pass after a failed 24 fps pass
generate_timelapse_no_return(week, n, entries, ok24, ok60) ==
    LET fps_24 == timelapse_filename(n, 24, week)
        fps_60 == timelapse_filename(n, 60, week)
        inputs == Glob(entries, filename_glob(week, n))
        r24 == ffmpeg_run(inputs, ok24)
        r60 == ffmpeg_run(inputs, ok60)
    IN  [result |-> IF r24 /\ r60 THEN Some(<<fps_24, fps_60>>) ELSE None,
         calls |-> <<Call("assemble", 24, r24, None), Call("assemble", 60, r60, None)>>,
         produced |-> (IF r24 THEN {fps_24} ELSE {}) \cup (IF r60 THEN {fps_60} ELSE {})]

\* generate_timelapse returning the two names although the 60 fps pass failed
generate_timelapse_ignore_60(week, n, entries, ok24, ok60) ==
    LET fps_24 == timelapse_filename(n, 24, week)
        fps_60 == timelapse_filename(n, 60, week)
        inputs == Glob(entries, filename_glob(week, n))
        r24 == ffmpeg_run(inputs, ok24)
        r60 == ffmpeg_run(inputs, ok60)
    IN  IF ~ r24
        THEN [result |-> None,
              calls |-> <<Call("assemble", 24, FALSE, None)>>,
              produced |-> {}]
        ELSE [result |-> Some(<<fps_24, fps_60>>),
              calls |-> <<Call("assemble", 24, TRUE, None),
                          Call("assemble", 60, r60, None)>>,
              produced |-> {fps_24} \cup (IF r60 THEN {fps_60} ELSE {})]

\* generate_timelapse(week): None, or the two file names
generate_timelapse(week, n, entries, ok24, ok60) ==
    LET fps_24 == timelapse_filename(n, 24, week)
        fps_60 == timelapse_filename(n, 60, week)
        inputs == Glob(entries, filename_glob(week, n))
    IN  IF ~ ffmpeg_run(inputs, ok24)
        THEN [result |-> None,
              calls |-> <<Call("assemble", 24, FALSE, None)>>,
              produced |-> {}]
        ELSE IF ~ ffmpeg_run(inputs, ok60)
        THEN [result |-> None,
              calls |-> <<Call("assemble", 24, TRUE, None),
                          Call("assemble", 60, FALSE, None)>>,
              produced |-> {fps_24}]
        ELSE [result |-> Some(<<fps_24, fps_60>>),
              calls |-> <<Call("assemble", 24, TRUE, None),
                          Call("assemble", 60, TRUE, None)>>,
              produced |-> {fps_24, fps_60}]

\* app.notify(...): the delivery result comes back as a boolean
notify(fps, attach, delivered) == Call("notify", fps, delivered, Some(attach))

\* a cleanup that removes the subdirectories too
cleanup_everything(entries) == {}

\* the cleanup loop: every entry that is a file is unlinked
cleanup(entries) == {e \in entries : e.kind # "file"}

\* send_timelapse raising when a delivery fails
send_timelapse_raising(week, n, s, entries, ok24, ok60, sent24, sent60) ==
    LET r == generate_timelapse(week, n, entries, ok24, ok60)
    IN  IF r.result = None
        THEN [calls |-> r.calls, dir |-> entries, produced |-> r.produced,
              raised |-> FALSE]
        ELSE
        LET fps_24 == r.result[1][1]
            fps_60 == r.result[1][2]
            n24    == <<notify(24, fps_24, sent24)>>
            n60    == <<notify(60, fps_60, sent60)>>
        IN  IF AppriseConfigured(s) /\ ~ sent24
            THEN [calls |-> r.calls \o n24, dir |-> entries,
                  produced |-> r.produced, raised |-> TRUE]
            ELSE IF AppriseConfigured(s) /\ ~ sent60
            THEN [calls |-> r.calls \o n24 \o n60, dir |-> entries,
                  produced |-> r.produced, raised |-> TRUE]
            ELSE [calls |-> r.calls
                            \o (IF AppriseConfigured(s) THEN n24 \o n60 ELSE <<>>)
                            \o (IF week THEN <<Call("cleanup", 0, TRUE, None)>> ELSE <<>>),
                  dir |-> IF week THEN cleanup(entries) ELSE entries,
                  produced |-> r.produced, raised |-> FALSE]

\* send_timelapse cleaning up after a weekly run whatever the assemblies did
send_timelapse_always_cleaning(week, n, s, entries, ok24, ok60, sent24, sent60) ==
    LET r == generate_timelapse(week, n, entries, ok24, ok60)
        notes == IF r.result # None /\ AppriseConfigured(s)
                 THEN <<notify(24, r.result[1][1], sent24),
                        notify(60, r.result[1][2], sent60)>>
                 ELSE <<>>
    IN  IF week
        THEN [calls |-> r.calls \o notes \o <<Call("cleanup", 0, TRUE, None)>>,
              dir |-> cleanup(entries), produced |-> r.produced, raised |-> FALSE]
        ELSE [calls |-> r.calls \o notes, dir |-> entries,
              produced |-> r.produced, raised |-> FALSE]

\* send_timelapse(week)
send_timelapse(week, n, s, entries, ok24, ok60, sent24, sent60) ==
    LET r == generate_timelapse(week, n, entries, ok24, ok60)
    IN  IF r.result = None
        THEN [calls |-> r.calls, dir |-> entries, produced |-> r.produced,
              raised |-> FALSE]
        ELSE
        LET fps_24 == r.result[1][1]
            fps_60 == r.result[1][2]
            notes  == IF AppriseConfigured(s)
                      THEN <<notify(24, fps_24, sent24), notify(60, fps_60, sent60)>>
                      ELSE <<>>
        IN  IF week
            THEN [calls |-> r.calls \o notes \o <<Call("cleanup", 0, TRUE, None)>>,
                  dir |-> cleanup(entries), produced |-> r.produced,
                  raised |-> FALSE]
            ELSE [calls |-> r.calls \o notes, dir |-> entries,
                  produced |-> r.produced, raised |-> FALSE]

----------------------------------------------------------------------------
(* The schedule library, as run_schedule uses it *)

NoJob == "none"
Jobs == <<"capture", "daily", "weekly">>
JobSet == {Jobs[i] : i \in 1..Len(Jobs)}
Index(j) == CHOOSE i \in 1..Len(Jobs) : Jobs[i] = j

\* the least t > n that is `phase` seconds into a period
NextAt(n, period, phase) ==
    LET base == (n \div period) * period + phase
    IN  IF base > n THEN base ELSE base + period

\* every(interval).seconds
EverySeconds(n, interval) == n + interval

\* every(interval).minutes
EveryMinutes(n, interval) == n + interval * MinuteLen

\* every().day.at(str)
EveryDayAt(n, str) == NextAt(n, DayLen, AtSecond(str))

\* every().day.at(str), registered for the weekly job
EveryMondayAt_any_day(n, str) == NextAt(n, DayLen, AtSecond(str))

\* every().monday.at(str)
EveryMondayAt(n, str) == NextAt(n, WeekLen, Monday * DayLen + AtSecond(str))

\* Job._schedule_next_run at wall clock n, for the three registered jobs
schedule_next_run(j, n, s) ==
    CASE j = "capture" -> EveryMinutes(n, s.screenshot_interval)
      [] j = "daily"   -> EveryDayAt(n, StrTime(s.timelapse_generation_time))
      [] j = "weekly"  -> EveryMondayAt(n, StrTime(s.timelapse_generation_time))

\* a fixed-rate timer: the capture trigger is armed one period after the
\* time it was armed for, whenever the run took place
Reschedule_fixed_rate(j, nr, n, s) ==
    IF j = "capture"
    THEN nr[j] + s.screenshot_interval * MinuteLen
    ELSE schedule_next_run(j, n, s)

\* Job.run: after the job function returned, last_run = now and the next run
\* is computed from now; the time nr[j] the job was armed for is not used
Reschedule(j, nr, n, s) == schedule_next_run(j, n, s)

\* Job.should_run
should_run(j, n, nr) == n >= nr[j]

\* a sort by next_run that puts the job registered last first on ties
SortedRunnable_last_first(n, nr) ==
    LET runnable == {j \in JobSet : should_run(j, n, nr)}
        before(a, b) == nr[a] < nr[b] \/ (nr[a] = nr[b] /\ Index(a) > Index(b))
        rank(j) == Cardinality({k \in runnable : before(k, j)})
    IN  [i \in 1..Cardinality(runnable) |->
            CHOOSE j \in runnable : rank(j) = i - 1]

\* sorted(runnable_jobs): by next_run, the registration order breaking ties
SortedRunnable(n, nr) ==
    LET runnable == {j \in JobSet : should_run(j, n, nr)}
        before(a, b) == nr[a] < nr[b] \/ (nr[a] = nr[b] /\ Index(a) < Index(b))
        rank(j) == Cardinality({k \in runnable : before(k, j)})
    IN  [i \in 1..Cardinality(runnable) |->
            CHOOSE j \in runnable : rank(j) = i - 1]

----------------------------------------------------------------------------
(* run_schedule *)

\* a loop head that never returns
LoopHeadBlind(stopped) == "pending"

\* the loop head: "if s.stop: return"
LoopHead(stopped) == IF stopped THEN "exited" ELSE "pending"

\* a handler that flips the flag: self.stop = not self.stop
on_sigterm_toggle(stopped) == ~ stopped

\* the handler installed by SignalHandler.__enter__: self.stop = True
on_sigterm(stopped) == TRUE

\* time.sleep(60)
sleep_a_minute(n) == n + SecPerMin

\* time.sleep(1)
sleep(n) == n + SleepSeconds

Outcomes == [a : BOOLEAN, b : BOOLEAN, n1 : BOOLEAN, n2 : BOOLEAN]

\* the job function of an invocation, run with the outcomes o of its calls
JobResult(r, s, entries, o) ==
    IF r.job = "capture"
    THEN take_screenshot(r.at, s, entries, o.a)
    ELSE send_timelapse(r.job = "weekly", r.at, s, entries, o.a, o.b, o.n1, o.n2)

InLoop(p) == p \in {"check", "pending", "jobs", "sleep"}

NoRun == [job |-> NoJob, initial |-> FALSE, at |-> 0, end |-> 0, done |-> TRUE,
          dirBefore |-> {}, tlBefore |-> {}]
NoSig == [seen |-> FALSE, at |-> 0, pc |-> "", inflight |-> NoJob, queued |-> 0]

\* nothing has run yet: no eager capture, no assembly, no job in flight; the
\* capture trigger was armed at n
NoHist(n) ==
    [initial |-> 0, daily |-> 0, weekly |-> 0, executing |-> 0, armed |-> n,
     capPrev |-> n, polled |-> <<>>, lastDaily |-> [at |-> -1, seen |-> {}]]

\* The three triggers are registered; take_screenshot() is about to be called.
\* A call to ffmpeg or apprise takes one of the times of durs.
StartWith(s, n, h, entries, durs) ==
    /\ check_skip_time_range(s)
    /\ settings = s
    /\ now = n
    /\ t0 = n
    /\ horizon = h
    /\ next_run = [j \in JobSet |-> schedule_next_run(j, n, s)]
    /\ handler = FALSE
    /\ stop = FALSE
    /\ pc = "startup"
    /\ due = <<>>
    /\ run = NoRun
    /\ trace = <<>>
    /\ dir = entries
    /\ timelapses = {}
    /\ sig = NoSig
    /\ afterSig = [started |-> 0, finished |-> 0, polls |-> 0]
    /\ capCalls = 0
    /\ exitAt = -1
    /\ lastPoll = -1
    /\ durations = durs
    /\ hist = NoHist(n)

Start(s, n, h, entries) == StartWith(s, n, h, entries, 0..MaxJobDur)

\* every job function runs in a thread of its own
MayStartThreaded(r) == TRUE

\* run_pending calls job.run() as a plain function call: the next job
\* function is entered only when the previous one has returned
MayStart(r) == r.done

\* A job function is entered: the eager take_screenshot() of run_schedule, or
\* the next job of run_pending's sorted list.  It reads the clock.
StartJob ==
    /\ MayStart(run)
    /\ pc \in {"startup", "jobs"}
    /\ pc = "jobs" => due # <<>>
    /\ LET initial == pc = "startup"
           j == IF initial THEN "capture" ELSE Head(due)
       IN  /\ run' = [job |-> j, initial |-> initial, at |-> now, end |-> now,
                      done |-> FALSE, dirBefore |-> dir, tlBefore |-> timelapses]
           /\ due' = IF initial THEN due ELSE Tail(due)
           /\ capCalls' = IF ~ initial /\ j = "capture" THEN capCalls + 1 ELSE capCalls
           /\ hist' = [hist EXCEPT
                         !.initial = IF initial THEN @ + 1 ELSE @,
                         !.daily = IF j = "daily" THEN @ + 1 ELSE @,
                         !.weekly = IF j = "weekly" THEN @ + 1 ELSE @,
                         !.executing = @ + 1,
                         !.armed = IF initial THEN now ELSE next_run[j]]
    /\ trace' = <<>>
    /\ afterSig' = IF sig.seen THEN [afterSig EXCEPT !.started = @ + 1] ELSE afterSig
    /\ UNCHANGED <<settings, now, t0, horizon, next_run, handler, stop, pc, dir,
                   timelapses, sig, exitAt, lastPoll, durations>>

\* The job function returns after d seconds; Job.run then sets the job's
\* next_run.  An exception leaving the job function leaves run_schedule.
FinishJob ==
    /\ ~ run.done
    /\ \E d \in durations, o \in Outcomes :
          LET r == JobResult(run, settings, dir, o)
              end == IF r.calls = <<>> THEN now ELSE now + d
          IN  /\ now' = end
              /\ trace' = r.calls
              /\ dir' = r.dir
              /\ timelapses' = timelapses \cup r.produced
              /\ next_run' = IF r.raised \/ run.initial
                             THEN next_run
                             ELSE [next_run EXCEPT
                                     ![run.job] = Reschedule(run.job, next_run, end, settings)]
              /\ pc' = IF r.raised THEN "crashed"
                       ELSE IF run.initial THEN "enter"
                       ELSE IF due = <<>> THEN "sleep" ELSE "jobs"
              /\ hist' = [hist EXCEPT
                            !.executing = @ - 1,
                            !.capPrev = IF run.job = "capture" /\ ~ run.initial
                                        THEN end ELSE @,
                            !.lastDaily = IF run.job = "daily"
                                          THEN [at |-> run.at, seen |-> run.dirBefore]
                                          ELSE @]
    /\ run' = [run EXCEPT !.done = TRUE, !.end = now']
    /\ afterSig' = IF sig.seen THEN [afterSig EXCEPT !.finished = @ + 1] ELSE afterSig
    /\ UNCHANGED <<settings, t0, horizon, handler, stop, due, sig, capCalls, exitAt,
                   lastPoll, durations>>

\* "with SignalHandler() as s": stop = False, then the handler is installed
EnterLoop ==
    /\ pc = "enter"
    /\ stop' = FALSE
    /\ handler' = TRUE
    /\ pc' = "check"
    /\ UNCHANGED <<settings, now, t0, horizon, next_run, due, run, trace, dir,
                   timelapses, sig, afterSig, capCalls, exitAt, lastPoll, durations,
                   hist>>

\* "if s.stop: return"
CheckStop ==
    /\ pc = "check"
    /\ pc' = LoopHead(stop)
    /\ exitAt' = IF pc' = "exited" THEN now ELSE exitAt
    /\ UNCHANGED <<settings, now, t0, horizon, next_run, handler, stop, due, run,
                   trace, dir, timelapses, sig, afterSig, capCalls, lastPoll,
                   durations, hist>>

\* schedule.run_pending() collects and sorts the runnable jobs
RunPending ==
    /\ pc = "pending"
    /\ due' = SortedRunnable(now, next_run)
    /\ pc' = IF due' = <<>> THEN "sleep" ELSE "jobs"
    /\ afterSig' = IF sig.seen THEN [afterSig EXCEPT !.polls = @ + 1] ELSE afterSig
    /\ lastPoll' = now
    /\ hist' = [hist EXCEPT !.polled = due']
    /\ UNCHANGED <<settings, now, t0, horizon, next_run, handler, stop, run, trace,
                   dir, timelapses, sig, capCalls, exitAt, durations>>

Longest(durs) == CHOOSE d \in durs : \A e \in durs : e <= d

\* the clock is followed up to the horizon, and past it for the last sleep
\* of a loop whose stop flag is set: the jobs of the last poll within the
\* horizon may have taken the clock up to Len(Jobs) durations past it
WithinHorizon(n, start, h, stopped, durs) ==
    IF stopped
    THEN n - start <= h + Len(Jobs) * Longest(durs)
    ELSE n - start < h

\* time.sleep(1)
Sleep ==
    /\ pc = "sleep"
    /\ WithinHorizon(now, t0, horizon, stop, durations)
    /\ now' = sleep(now)
    /\ pc' = "check"
    /\ UNCHANGED <<settings, t0, horizon, next_run, handler, stop, due, run, trace,
                   dir, timelapses, sig, afterSig, capCalls, exitAt, lastPoll,
                   durations, hist>>

\* SIGTERM is delivered: the handler sets the flag; before the handler is
\* installed the default disposition ends the process.
Sigterm ==
    /\ pc \notin {"exited", "killed", "crashed"}
    /\ stop' = IF handler THEN on_sigterm(stop) ELSE stop
    /\ pc' = IF handler THEN pc ELSE "killed"
    /\ sig' = IF handler /\ ~ sig.seen
              THEN [seen |-> TRUE, at |-> now, pc |-> pc,
                    inflight |-> IF run.done THEN NoJob ELSE run.job,
                    queued |-> Len(due)]
              ELSE sig
    /\ UNCHANGED <<settings, now, t0, horizon, next_run, handler, due, run, trace,
                   dir, timelapses, afterSig, capCalls, exitAt, lastPoll, durations,
                   hist>>

Next ==
    \/ StartJob
    \/ FinishJob
    \/ EnterLoop
    \/ CheckStop
    \/ RunPending
    \/ Sleep
    \/ Sigterm

----------------------------------------------------------------------------
(* Specifications *)

SettingsOf(interval, g, skip, servers) ==
    [screenshot_interval |-> interval,
     timelapse_generation_time |-> g,
     skip_time_start |-> skip[1],
     skip_time_end |-> skip[2],
     apprise_servers |-> servers]

Intervals == {1}
GenTimes == {Midnight, Time(0, 0, 1), Time(0, 1, 0), Time(1, 0, 0)}
SkipWindows == {<<None, None>>, <<Some(Time(0, 0, 1)), Some(Time(0, 1, 0))>>}
Servers == {"None", "json://host"}

\* around Monday 00:00:00 and around Tuesday 00:00:00
StartTimes == {WeekLen + k * DayLen - b : k \in {0, 1}, b \in 0..StartBack}

Init ==
    \E i \in Intervals, g \in GenTimes, w \in SkipWindows, a \in Servers,
       n \in StartTimes :
        Start(SettingsOf(i, g, w, a), n, MaxElapsed, {SubDir, OtherFile})

Spec == Init /\ [][Next]_vars

\* the end-to-end scenario: interval 5 minutes, generation time 00:00, no
\* skip window
InitE2E ==
    \E a \in Servers, n \in StartTimes :
        Start(SettingsOf(DefaultInterval, Midnight, <<None, None>>, a), n,
              DefaultInterval * MinuteLen + E2EExtra, {SubDir, OtherFile})

SpecE2E == InitE2E /\ [][Next]_vars

\* one day and a little more from a fresh start, on a Sunday night, a Monday,
\* a Monday night and a Tuesday
InitDay ==
    \E g \in {Midnight, Time(1, 0, 0)}, n \in StartTimes :
        Start(SettingsOf(DefaultInterval, g, <<None, None>>, "None"), n,
              DayLen + DayExtra, {SubDir, OtherFile})

SpecDay == InitDay /\ [][Next]_vars

\* a call that blocks for more than BlockPeriods capture periods after the
\* capture trigger came due
LongDur == (BlockPeriods + 1) * MinuteLen + 1

\* capture every minute, jobs that return at once or block for LongDur
InitLong ==
    \E g \in {Midnight, Time(0, 1, 0)}, n \in StartTimes :
        StartWith(SettingsOf(1, g, <<None, None>>, "None"), n,
                  LongDur + MinuteLen, {SubDir, OtherFile}, {0, LongDur})

SpecLong == InitLong /\ [][Next]_vars

\* The one thread of run_schedule keeps running: the step it is at is taken
\* sooner or later, and a job function that was entered returns.  Nothing is
\* assumed about the arrival of SIGTERM.
Fairness ==
    /\ WF_vars(StartJob)
    /\ WF_vars(FinishJob)
    /\ WF_vars(EnterLoop)
    /\ WF_vars(CheckStop)
    /\ WF_vars(RunPending)
    /\ WF_vars(Sleep)

\* started a second before Monday 00:00:00, the generation time
InitLive ==
    \E a \in Servers :
        Start(SettingsOf(DefaultInterval, Midnight, <<None, None>>, a), WeekLen - 1,
              MaxElapsed, {SubDir, OtherFile})

SpecLive == InitLive /\ [][Next]_vars /\ Fairness

----------------------------------------------------------------------------
(* Vocabulary of the properties *)

Calls(tr, op) == SelectSeq(tr, LAMBDA c : c.op = op)

\* the media processor was called by the invocation and failed
ProcessorFailed(tr) ==
    \E i \in 1..Len(tr) : tr[i].op \in {"capture", "assemble"} /\ ~ tr[i].ok

\* both assemblies of the invocation succeeded
BothAssembled(tr) ==
    /\ Len(tr) >= 2
    /\ tr[1] = Call("assemble", 24, TRUE, None)
    /\ tr[2] = Call("assemble", 60, TRUE, None)

DeliveryFailed(tr) == \E i \in 1..Len(tr) : tr[i].op = "notify" /\ ~ tr[i].ok

IsAssembly(r) == r.job \in {"daily", "weekly"}

Frames(entries) == {e \in entries : e.jpg}

\* the loop is running, or it returned because it saw the stop flag
RunningOrStopped == InLoop(pc) \/ (pc = "exited" /\ stop)

----------------------------------------------------------------------------
(* C1: a failure of the media processor (capture error, assembly error on  *)
(* either pass) ends only that job invocation: no exception leaves the job,*)
(* the job's trigger is armed again for a later time, and once the loop    *)
(* runs it is left only by the return taken when the stop flag is seen.    *)
C1_JobFailureNeverStopsScheduler ==
    /\ pc # "crashed"
    /\ handler => RunningOrStopped
    /\ (run.done /\ ~ run.initial /\ ProcessorFailed(trace)) =>
          /\ next_run[run.job] > run.end
          /\ next_run[run.job] = schedule_next_run(run.job, run.end, settings)

\* the eager capture failed, a later capture trigger fired and failed too,
\* and the loop goes on to sleep
C1_Witness ==
    /\ settings.skip_time_start = None
    /\ run.done /\ ~ run.initial /\ run.job = "capture"
    /\ ProcessorFailed(trace)
    /\ Frames(run.dirBefore) = {} /\ timelapses = {}
    /\ pc = "sleep" /\ ~ stop

(* C2: in an assemble-and-notify run with both assemblies done and         *)
(* endpoints configured, a failing notify call does not abort the job (the *)
(* other notify call is still made), does not prevent the cleanup of a     *)
(* weekly run, and does not end the loop.                                  *)
C2_DeliveryFailureNeverEscalates ==
    (/\ run.done /\ IsAssembly(run) /\ BothAssembled(trace)
     /\ AppriseConfigured(settings) /\ DeliveryFailed(trace)) =>
        /\ Len(Calls(trace, "notify")) = 2
        /\ run.job = "weekly" =>
              /\ trace[Len(trace)].op = "cleanup"
              /\ dir = {e \in run.dirBefore : e.kind # "file"}
        /\ RunningOrStopped
        /\ next_run[run.job] > run.end

\* a weekly run whose 24 fps delivery failed has cleaned up, and the loop
\* sleeps
C2_Witness ==
    /\ run.done /\ run.job = "weekly" /\ BothAssembled(trace)
    /\ \E i \in 1..Len(trace) :
          trace[i].op = "notify" /\ trace[i].fps = 24 /\ ~ trace[i].ok
    /\ Frames(run.dirBefore) # {} /\ Frames(dir) = {}
    /\ pc = "sleep"

(* C3: in every assemble-and-notify run, daily or weekly, whose 24 fps     *)
(* assembly failed, the 60 fps assembly is not attempted and no            *)
(* notification is sent.                                                   *)
C3_Failed24ShortCircuits ==
    (/\ run.done /\ IsAssembly(run)
     /\ \E i \in 1..Len(trace) :
           trace[i].op = "assemble" /\ trace[i].fps = 24 /\ ~ trace[i].ok) =>
        /\ \A i \in 1..Len(trace) : ~ (trace[i].op = "assemble" /\ trace[i].fps = 60)
        /\ Calls(trace, "notify") = <<>>

\* a daily run with endpoints configured and frames to read, whose 24 fps
\* pass failed
C3_Witness ==
    /\ run.done /\ run.job = "daily" /\ AppriseConfigured(settings)
    /\ Glob(run.dirBefore, filename_glob(FALSE, run.at)) # {}
    /\ trace = <<Call("assemble", 24, FALSE, None)>>

(* C4: notifications are all-or-nothing per run: notify calls are made     *)
(* only after both assemblies of the same run succeeded; a run ends either *)
(* with both artifacts produced and, when endpoints are configured, the    *)
(* 24 fps and then the 60 fps notify call, each with its own artifact, or  *)
(* with no notify call; after a failed 60 fps pass the 24 fps file stays   *)
(* on disk un-notified.                                                    *)
C4_NotificationsAllOrNothing ==
    (run.done /\ IsAssembly(run)) =>
        LET week   == run.job = "weekly"
            fps_24 == timelapse_filename(run.at, 24, week)
            fps_60 == timelapse_filename(run.at, 60, week)
            notes  == Calls(trace, "notify")
        IN  IF BothAssembled(trace)
            THEN /\ {fps_24, fps_60} \subseteq timelapses
                 /\ IF AppriseConfigured(settings)
                    THEN /\ Len(notes) = 2
                         /\ notes[1].fps = 24 /\ notes[1].attach = Some(fps_24)
                         /\ notes[2].fps = 60 /\ notes[2].attach = Some(fps_60)
                         /\ trace[3] = notes[1] /\ trace[4] = notes[2]
                    ELSE notes = <<>>
            ELSE /\ notes = <<>>
                 /\ fps_60 \notin timelapses
                 /\ (Len(trace) = 2 /\ trace[1].ok) => fps_24 \in timelapses

\* the 60 fps pass failed after the 24 fps pass, endpoints are configured:
\* the 24 fps file is on disk and nothing was sent
C4_Witness ==
    /\ run.done /\ IsAssembly(run) /\ AppriseConfigured(settings)
    /\ trace = <<Call("assemble", 24, TRUE, None), Call("assemble", 60, FALSE, None)>>
    /\ timelapse_filename(run.at, 24, run.job = "weekly") \in timelapses

(* C5: when SIGTERM arrives while the loop waits between two polls (in   *)
(* time.sleep, or back at the loop head, no job executing), the loop       *)
(* returns within one sleep interval and no job is started, and no         *)
(* run_pending made, after the signal.                                     *)
C5_SignalWhileWaiting ==
    (sig.seen /\ sig.pc \in {"sleep", "check"}) =>
        /\ sig.inflight = NoJob
        /\ afterSig = [started |-> 0, finished |-> 0, polls |-> 0]
        /\ pc \in {"sleep", "check", "exited"}
        /\ now - sig.at <= SleepSeconds
        /\ pc = "exited" => exitAt - sig.at <= SleepSeconds

\* the signal came during the sleep, the loop returned one second later
\* although the capture trigger was due by then
C5_Witness ==
    /\ sig.seen /\ sig.pc = "sleep"
    /\ pc = "exited" /\ exitAt = sig.at + SleepSeconds
    /\ next_run["capture"] <= exitAt

(* C6, as the claim states it: after SIGTERM is delivered while a job      *)
(* executes, at most that one job completes before the loop exits.         *)
C6_AtMostOneJobAfterSignal ==
    (sig.seen /\ sig.inflight # NoJob) =>
        /\ afterSig.started = 0
        /\ afterSig.finished <= 1

(* C6, amended: the stop flag is read once per poll, before run_pending,   *)
(* and not between the jobs of one poll.  After SIGTERM is delivered while *)
(* a job executes, that job and the jobs run_pending had already collected *)
(* behind it (at most two more) complete, no further run_pending is made,  *)
(* and the loop returns at the next loop head.                             *)
C6_OnlyThePollInFlightCompletes ==
    (sig.seen /\ sig.inflight # NoJob) =>
        /\ sig.queued <= 2
        /\ afterSig.polls = 0
        /\ afterSig.started <= sig.queued
        /\ afterSig.finished <= 1 + sig.queued
        /\ pc = "exited" => afterSig.finished = 1 + sig.queued

\* capture, daily and weekly assembly were due in one poll, the signal came
\* during the capture, and all three completed before the loop returned
C6_Witness ==
    /\ sig.seen /\ sig.inflight = "capture" /\ sig.queued = 2
    /\ afterSig.finished = 3
    /\ pc = "exited"

\* the second of the day of wall clock n, and of a time of day
SecondOfDay(n) == n % DayLen
ToSecond(t) == t.hour * HourLen + t.minute * MinuteLen + t.second

(* C7: a capture run (the eager one and every scheduled one) at time of    *)
(* day t calls the media processor iff it is not the case that both skip   *)
(* bounds are set and start <= t <= end, bounds included.                  *)
C7_ProcessorInvokedIffOutsideWindow ==
    (run.done /\ run.job = "capture") =>
        LET t == SecondOfDay(run.at)
            inside == /\ settings.skip_time_start # None
                      /\ settings.skip_time_end # None
                      /\ ToSecond(settings.skip_time_start[1]) <= t
                      /\ t <= ToSecond(settings.skip_time_end[1])
        IN  /\ Len(Calls(trace, "capture")) = (IF inside THEN 0 ELSE 1)
            /\ Len(trace) = Len(Calls(trace, "capture"))

\* a scheduled capture at exactly the end of the window made no call, and
\* the directory is as it was
C7_Witness ==
    /\ run.done /\ run.job = "capture" /\ ~ run.initial
    /\ settings.skip_time_end # None
    /\ SecondOfDay(run.at) = ToSecond(settings.skip_time_end[1])
    /\ ToSecond(settings.skip_time_start[1]) < ToSecond(settings.skip_time_end[1])
    /\ trace = <<>> /\ dir = run.dirBefore

(* C8: a weekly run whose two assemblies succeeded leaves in the           *)
(* screenshot directory exactly the entries that are no regular files      *)
(* (every regular file is deleted, subdirectories stay), with or without   *)
(* endpoints configured; a daily run deletes no screenshot; a capture run  *)
(* deletes none either; no job deletes a file of the time-lapse directory. *)
C8_WeeklyCleanup ==
    run.done =>
        /\ (run.job = "weekly" /\ BothAssembled(trace)) =>
              /\ dir = {e \in run.dirBefore : e.kind # "file"}
              /\ \A e \in dir : e.kind = "dir"
              /\ SubDir \in run.dirBefore => SubDir \in dir
        /\ run.job = "daily" => dir = run.dirBefore
        /\ run.job = "capture" => run.dirBefore \subseteq dir
        /\ run.tlBefore \subseteq timelapses

\* a weekly run without endpoints deleted the frames and the other regular
\* file and kept the subdirectory
C8_Witness ==
    /\ run.done /\ run.job = "weekly" /\ BothAssembled(trace)
    /\ ~ AppriseConfigured(settings)
    /\ Frames(run.dirBefore) # {} /\ OtherFile \in run.dirBefore
    /\ dir = {SubDir}
    /\ Cardinality(timelapses) >= 4

(* C9, as the claim states it: for every configured generation time g,   *)
(* the daily run fired at g on day D+1 selects exactly the frames on disk  *)
(* that were captured from g on day D (included) to g on day D+1           *)
(* (excluded).                                                             *)
C9_DailySelectsGenerationDay ==
    LET g  == ToSecond(settings.timelapse_generation_time)
        d1 == DateOf(run.at)
    IN  (run.job = "daily" /\ SecondOfDay(run.at) >= g) =>
            Glob(run.dirBefore, filename_glob(FALSE, run.at))
              = {e \in Frames(run.dirBefore) :
                    /\ (d1 - 1) * DayLen + g <= e.captured
                    /\ e.captured < d1 * DayLen + g}

\* the same statement for the generation times that are whole minutes, the
\* only ones image_filename shifts by exactly
C9_WholeMinuteGenerationDay ==
    settings.timelapse_generation_time.second = 0 => C9_DailySelectsGenerationDay

\* a daily run at a generation time with hours or minutes that read a frame
C9_WholeMinuteWitness ==
    /\ run.job = "daily" /\ run.done /\ BothAssembled(trace)
    /\ settings.timelapse_generation_time.second = 0
    /\ settings.timelapse_generation_time # Midnight

FiveMinutes == DefaultInterval * MinuteLen

(* C10: with interval = 5 minutes, generation time 00:00 and no skip       *)
(* window, advancing the clock by 5 minutes from the registration of the   *)
(* triggers makes the scheduler call the capture job exactly once: not     *)
(* before the 5 minutes have passed, once in the poll made when they have, *)
(* and not a second time before 10 minutes.  (The eager capture of the     *)
(* startup is not a scheduled call.)                                       *)
C10_FiveMinutesOneCapture ==
    (/\ settings.screenshot_interval = DefaultInterval
     /\ settings.timelapse_generation_time = Midnight
     /\ settings.skip_time_start = None /\ settings.skip_time_end = None) =>
        /\ now < t0 + FiveMinutes => capCalls = 0
        /\ now < t0 + 2 * FiveMinutes => capCalls <= 1
        /\ (/\ pc = "sleep" /\ lastPoll >= t0 + FiveMinutes
            /\ now < t0 + 2 * FiveMinutes) => capCalls = 1

\* exactly 5 minutes after the registration the poll has run the capture job
\* once, and the loop sleeps
C10_Witness ==
    /\ settings.screenshot_interval = DefaultInterval
    /\ pc = "sleep" /\ now = t0 + FiveMinutes /\ lastPoll = now
    /\ capCalls = 1
    /\ run.done /\ run.job = "capture" /\ ~ run.initial /\ run.at = t0 + FiveMinutes
    /\ trace = <<Call("capture", 0, TRUE, None)>>

\* the first generation time after the registration of the triggers, and
\* whether it is Monday's
FirstGeneration ==
    CHOOSE t \in (t0 + 1)..(t0 + DayLen) :
        SecondOfDay(t) = ToSecond(settings.timelapse_generation_time)
MondayInFirstDay ==
    FirstGeneration % WeekLen
      = Monday * DayLen + ToSecond(settings.timelapse_generation_time)

(* C11: from a fresh start, the 24 hours that follow trigger the daily     *)
(* assembly exactly once: not before the first generation time, once in    *)
(* the poll made when it is reached, not again within a day of it.  The    *)
(* weekly assembly is triggered in that period, once, only when the period *)
(* contains Monday's generation time; otherwise no weekly run and no       *)
(* cleanup happens.                                                        *)
C11_OneDailyPerDay ==
    /\ now < FirstGeneration => hist.daily = 0 /\ hist.weekly = 0
    /\ now < FirstGeneration + DayLen =>
          /\ hist.daily <= 1
          /\ hist.weekly <= (IF MondayInFirstDay THEN hist.daily ELSE 0)
          /\ ~ MondayInFirstDay =>
                /\ Calls(trace, "cleanup") = <<>>
                /\ OtherFile \in dir
          /\ (pc = "sleep" /\ lastPoll >= FirstGeneration) =>
                /\ hist.daily = 1
                /\ hist.weekly = (IF MondayInFirstDay THEN 1 ELSE 0)

\* started on a Tuesday, 24 hours later: the poll ran the daily assembly
\* once, no weekly run was made and nothing was cleaned
C11_Witness ==
    /\ DateOf(t0) % DaysPerWeek # Monday
    /\ now = t0 + DayLen /\ lastPoll = now /\ pc = "sleep"
    /\ hist.daily = 1 /\ hist.weekly = 0
    /\ run.job = "daily" /\ run.done
    /\ OtherFile \in dir

(* C12: at most one job function (capture, daily or weekly assembly) is    *)
(* executing in every reachable state: a job function is entered only      *)
(* when the one entered before it has returned, be it another job or the   *)
(* same one, and while one executes the loop neither polls nor sleeps.     *)
C12_AtMostOneJobExecuting ==
    /\ hist.executing \in {0, 1}
    /\ hist.executing = 1 <=> ~ run.done
    /\ hist.executing = 1 => pc \in {"startup", "jobs", "killed"}

\* capture and daily assembly were due in one poll: the capture has
\* returned, the daily assembly is the one job executing
C12_Witness ==
    /\ hist.polled = <<"capture", "daily">>
    /\ run.job = "daily" /\ ~ run.done /\ due = <<>>
    /\ hist.executing = 1
    /\ hist.capPrev >= lastPoll

CapturePeriod == settings.screenshot_interval * MinuteLen

(* C13: missed firings are delayed, not queued.  The capture trigger is    *)
(* always armed exactly one period after the end of the last scheduled     *)
(* capture run (after the registration, before the first), however many    *)
(* periods went by while a job blocked the loop; a poll fires it at most   *)
(* once, and a scheduled capture run starts at least one period after the  *)
(* previous one ended: the missed firings are not replayed.                *)
C13_MissedFiringsNotReplayed ==
    /\ next_run["capture"] = hist.capPrev + CapturePeriod
    /\ Len(SelectSeq(hist.polled, LAMBDA j : j = "capture")) <= 1
    /\ (run.job = "capture" /\ ~ run.initial) =>
          /\ run.at >= hist.armed
          /\ ~ run.done => run.at >= hist.capPrev + CapturePeriod
          /\ run.done => next_run["capture"] = run.end + CapturePeriod
    /\ capCalls * CapturePeriod <= now - t0

\* the loop was blocked for more than BlockPeriods periods after the
\* capture trigger came due: the next poll ran the capture job once, armed
\* it one period after that run, and the poll after it had nothing to run
C13_Witness ==
    /\ run.job = "capture" /\ ~ run.initial /\ run.done
    /\ run.at - hist.armed > BlockPeriods * CapturePeriod
    /\ capCalls = 1
    /\ next_run["capture"] = run.end + CapturePeriod
    /\ lastPoll > run.end /\ hist.polled = <<>> /\ pc = "sleep"

(* C14, as the claim states it: the termination handler is in place from   *)
(* the registration of the triggers on, so a SIGTERM delivered at any      *)
(* moment after it, the eager initial capture included, sets the stop flag *)
(* and the process is never ended by the signal itself; the loop is left   *)
(* only by the return taken on the stop flag.                              *)
C14_SignalAlwaysGraceful ==
    /\ pc # "killed"
    /\ pc = "exited" => stop

(* C15: once the stop flag is set, the loop eventually returns (pc is      *)
(* "exited"), provided every job function that was entered returns and     *)
(* the thread of run_schedule keeps running.                               *)
C15_StopLeadsToExit == stop ~> (pc = "exited")

\* the flag was set while a job of a poll with more jobs behind it
\* executed, and the loop has returned
C15_Witness ==
    /\ stop /\ pc = "exited"
    /\ sig.inflight # NoJob /\ sig.queued >= 1
    /\ exitAt >= sig.at

(* C16: the stop flag is monotonic.  It is false at the start; the only    *)
(* step that changes it is the first SIGTERM the installed handler         *)
(* receives, which makes it true; from then on every step (further         *)
(* signals, the steps of the loop, the jobs) leaves it true.               *)
C16_StopFlagMonotonic ==
    /\ ~ stop
    /\ [][/\ stop => stop'
          /\ stop' # stop => (handler /\ ~ sig.seen /\ sig'.seen /\ stop')
          /\ sig'.seen => stop']_vars

\* two jobs have returned since the signal set the flag, a third is about to
\* start, and the flag is still set
C16_Witness ==
    /\ stop /\ sig.seen
    /\ afterSig.finished >= 2 /\ pc = "jobs" /\ due # <<>>

(* C17: on startup the three triggers are registered, then the capture job *)
(* runs exactly once, synchronously, before the first poll: no poll is     *)
(* made and no scheduled capture, daily or weekly assembly starts before   *)
(* the eager capture has returned; a failed or a skipped eager capture     *)
(* raises nothing, so the loop is entered after it.                        *)
C17_EagerCaptureBeforeFirstPoll ==
    /\ hist.initial <= 1
    /\ pc \in {"startup", "enter"} =>
          /\ next_run = [j \in JobSet |-> schedule_next_run(j, t0, settings)]
          /\ lastPoll = -1 /\ due = <<>>
          /\ capCalls = 0 /\ hist.daily = 0 /\ hist.weekly = 0
    /\ (lastPoll # -1 \/ capCalls + hist.daily + hist.weekly > 0) =>
          /\ hist.initial = 1
          /\ ~ (run.initial /\ ~ run.done)
    /\ (InLoop(pc) \/ pc = "exited") => hist.initial = 1
    /\ (run.initial /\ run.done) =>
          /\ pc # "crashed"
          /\ pc \in {"enter", "killed", "exited"} \/ InLoop(pc)

\* the eager capture failed; the loop was entered, made its first poll and
\* sleeps
C17_Witness ==
    /\ run.initial /\ run.done
    /\ trace = <<Call("capture", 0, FALSE, None)>>
    /\ hist.initial = 1
    /\ lastPoll >= t0 /\ pc = "sleep" /\ ~ stop

(* C18: a weekly run whose assembly fails on either pass raises nothing,   *)
(* sends no notification and deletes nothing: the directory is as the run  *)
(* found it and the loop goes on.  A weekly run that finds no frame in the *)
(* directory is such a run (the 24 fps pass fails for want of input).  The *)
(* cleanup is made only by a weekly run whose two assemblies succeeded.    *)
C18_FailedWeeklyDeletesNothing ==
    (run.done /\ run.job = "weekly") =>
        /\ Frames(run.dirBefore) = {} =>
              trace = <<Call("assemble", 24, FALSE, None)>>
        /\ Calls(trace, "cleanup") # <<>> => BothAssembled(trace)
        /\ ~ BothAssembled(trace) =>
              /\ ProcessorFailed(trace)
              /\ Calls(trace, "notify") = <<>>
              /\ Calls(trace, "cleanup") = <<>>
              /\ dir = run.dirBefore
              /\ RunningOrStopped
              /\ next_run["weekly"] > run.end

\* a weekly run with endpoints configured found the other file and no
\* frame: one failed call to ffmpeg, nothing sent, the file still there
C18_Witness ==
    /\ run.done /\ run.job = "weekly" /\ AppriseConfigured(settings)
    /\ Frames(run.dirBefore) = {} /\ OtherFile \in run.dirBefore
    /\ trace = <<Call("assemble", 24, FALSE, None)>>
    /\ dir = run.dirBefore /\ pc = "sleep"

\* the place of job j in the list of a poll, 0 when it is not in it
PlaceIn(list, j) ==
    IF \E i \in 1..Len(list) : list[i] = j
    THEN CHOOSE i \in 1..Len(list) : list[i] = j
    ELSE 0

\* the poll in progress, or the last one, found both assemblies due
BothAssembliesDue ==
    PlaceIn(hist.polled, "daily") > 0 /\ PlaceIn(hist.polled, "weekly") > 0

(* C19: when a poll finds the daily and the weekly assembly due together,  *)
(* the daily one is run first and has returned before the weekly one       *)
(* starts.  The weekly run of that poll therefore finds every frame the    *)
(* daily run found: nothing was cleaned before the daily run read the      *)
(* frames of the previous day, and every frame of that day the cleanup     *)
(* removes was among the inputs of the daily run.                          *)
C19_DailyBeforeWeekly ==
    BothAssembliesDue =>
        /\ PlaceIn(hist.polled, "daily") < PlaceIn(hist.polled, "weekly")
        /\ (run.job = "daily" /\ run.at >= lastPoll) =>
              PlaceIn(due, "weekly") > 0 /\ hist.weekly = 0
        /\ (run.job = "weekly" /\ run.at >= lastPoll) =>
              /\ hist.lastDaily.at >= lastPoll
              /\ hist.lastDaily.at <= run.at
              /\ Frames(hist.lastDaily.seen) = Frames(run.dirBefore)
              /\ \A f \in Frames(run.dirBefore) \ Frames(dir) :
                    DateOf(f.stamp) = DateOf(hist.lastDaily.at) - 1 =>
                        f \in Glob(hist.lastDaily.seen,
                                   filename_glob(FALSE, hist.lastDaily.at))

\* Monday: both assemblies were due in one poll; the daily run read a frame
\* of Sunday, then the weekly run assembled and removed it
C19_Witness ==
    /\ BothAssembliesDue
    /\ run.job = "weekly" /\ run.done /\ run.at >= lastPoll
    /\ BothAssembled(trace)
    /\ Glob(hist.lastDaily.seen, filename_glob(FALSE, hist.lastDaily.at)) # {}
    /\ Frames(dir) = {}

\* the frames a finished run removed
Deleted(r, entries) == Frames(r.dirBefore) \ Frames(entries)

\* the offset of the file names, the offset-shifted day of a clock and the
\* second at which that day began
Offset(s) ==
    s.timelapse_generation_time.hour * HourLen
      + s.timelapse_generation_time.minute * MinuteLen
ShiftedDay(n, s) == DateOf(n - Offset(s))
ShiftedDayStart(n, s) == ShiftedDay(n, s) * DayLen + Offset(s)

(* C20, as the claim states it: whenever the weekly run deletes the        *)
(* screenshots, every deleted frame has a filename date earlier than the   *)
(* offset-shifted day in which the run takes place.                        *)
C20_NoFrameOfTheDayInProgressLost ==
    (run.done /\ run.job = "weekly") =>
        \A f \in Deleted(run, dir) :
            DateOf(f.stamp) < ShiftedDay(run.at, settings)

(* C20, amended: the weekly cleanup removes every frame on disk, whatever  *)
(* its filename date.  Every frame it removes was captured before the      *)
(* weekly run started and has a filename date no later than the            *)
(* offset-shifted day of the run; the frames of that very day, those       *)
(* captured since the day began (by a capture job run earlier in the same  *)
(* poll, or because the assemblies started late), are removed with the     *)
(* rest, before the daily assembly for their filename date runs.           *)
C20_CleanupTakesTheDayInProgressToo ==
    (run.done /\ run.job = "weekly") =>
        /\ IF BothAssembled(trace)
           THEN Frames(dir) = {}
           ELSE Deleted(run, dir) = {}
        /\ \A f \in Deleted(run, dir) :
              /\ f.captured <= run.at
              /\ DateOf(f.stamp) <= ShiftedDay(run.at, settings)
              /\ DateOf(f.stamp) = ShiftedDay(run.at, settings)
                    <=> f.captured >= ShiftedDayStart(run.at, settings)

\* generation time 00:01 or 01:00: the capture job was due in the poll of
\* the weekly run and ran first; its frame, named for the day that had
\* just begun, was removed by the cleanup
C20_Witness ==
    /\ run.done /\ run.job = "weekly" /\ BothAssembled(trace)
    /\ settings.timelapse_generation_time.second = 0
    /\ settings.timelapse_generation_time # Midnight
    /\ PlaceIn(hist.polled, "capture") = 1
    /\ \E f \in Deleted(run, dir) :
          /\ DateOf(f.stamp) = ShiftedDay(run.at, settings)
          /\ f.captured >= lastPoll

====
